---- MODULE Spec2Model ----
(***************************************************************************)
(* A model of roicalculator.py: the Streamlit script that asks the Bayut   *)
(* transactions API for recent rents (get_bayut_rent), the helper          *)
(* functions that normalise loosely typed JSON records, and the ROI        *)
(* display that consumes the result.                                       *)
(*                                                                         *)
(* Conventions of the model                                                *)
(*  - A Python str is a sequence of one-character strings.                 *)
(*  - A Python float is an exact rational [f |-> "rat", n, d] (d > 0, in   *)
(*    lowest terms), or FNaN, or FInf; binary rounding error is not        *)
(*    modelled.                                                            *)
(*  - A decoded JSON value is a record tagged by t: "null", "bool", "num", *)
(*    "nan", "inf", "str", "list", "dict".  A dict keeps its items in      *)
(*    insertion order, as Python does.                                     *)
(*  - A point in time (an aware datetime) is an integer number of hours    *)
(*    since 1970-01-01T00:00Z.                                             *)
(*  - A raised exception is the record Raise(name).                        *)
(***************************************************************************)
EXTENDS Integers, Sequences, FiniteSets, TLC

(***************************************************************************)
(* Python str operations                                                   *)
(***************************************************************************)
LowerAlpha == <<"a","b","c","d","e","f","g","h","i","j","k","l","m",
                "n","o","p","q","r","s","t","u","v","w","x","y","z">>

UpperAlpha == <<"A","B","C","D","E","F","G","H","I","J","K","L","M",
                "N","O","P","Q","R","S","T","U","V","W","X","Y","Z">>

Digits == <<"0","1","2","3","4","5","6","7","8","9">>

IsDigit(c) == \E i \in 1..10 : Digits[i] = c

DigitVal(c) == (CHOOSE i \in 1..10 : Digits[i] = c) - 1

UpperChar(c) ==
    IF \E i \in 1..26 : LowerAlpha[i] = c
    THEN UpperAlpha[CHOOSE i \in 1..26 : LowerAlpha[i] = c]
    ELSE c

LowerChar(c) ==
    IF \E i \in 1..26 : UpperAlpha[i] = c
    THEN LowerAlpha[CHOOSE i \in 1..26 : UpperAlpha[i] = c]
    ELSE c

\* str.upper() and str.lower()
Upper(s) == [i \in 1..Len(s) |-> UpperChar(s[i])]

Lower(s) == [i \in 1..Len(s) |-> LowerChar(s[i])]

IsSpace(c) == c = " "

\* str.strip(): leading and trailing whitespace removed
Strip(s) ==
    IF \A i \in 1..Len(s) : IsSpace(s[i])
    THEN << >>
    ELSE LET a == CHOOSE i \in 1..Len(s) :
                     ~IsSpace(s[i]) /\ \A j \in 1..(i - 1) : IsSpace(s[j])
             b == CHOOSE i \in 1..Len(s) :
                     ~IsSpace(s[i]) /\ \A j \in (i + 1)..Len(s) : IsSpace(s[j])
         IN  SubSeq(s, a, b)

\* whether token occurs in s at position i
OccursAt(s, token, i) ==
    /\ i >= 1
    /\ i + Len(token) - 1 <= Len(s)
    /\ \A j \in 1..Len(token) : s[i + j - 1] = token[j]

\* `token in s`
Contains(s, token) == \E i \in 1..(Len(s) + 1) : OccursAt(s, token, i)

\* s.endswith(token)
EndsWith(s, token) ==
    Len(token) <= Len(s) /\ OccursAt(s, token, Len(s) - Len(token) + 1)

\* s.replace(token, ""): the non-overlapping occurrences, left to right
RECURSIVE Remove(_, _)
Remove(s, token) ==
    IF s = << >> THEN << >>
    ELSE IF OccursAt(s, token, 1)
         THEN Remove(SubSeq(s, Len(token) + 1, Len(s)), token)
         ELSE <<Head(s)>> \o Remove(Tail(s), token)

\* s.replace(token, by)
RECURSIVE Replace(_, _, _)
Replace(s, token, by) ==
    IF s = << >> THEN << >>
    ELSE IF OccursAt(s, token, 1)
         THEN by \o Replace(SubSeq(s, Len(token) + 1, Len(s)), token, by)
         ELSE <<Head(s)>> \o Replace(Tail(s), token, by)

\* the length of the run of digits of s that starts at position i
RECURSIVE DigitRun(_, _)
DigitRun(s, i) ==
    IF i <= Len(s) /\ IsDigit(s[i]) THEN 1 + DigitRun(s, i + 1) ELSE 0

\* int() of a sequence of digits
RECURSIVE DigitsToInt(_)
DigitsToInt(ds) ==
    IF ds = << >> THEN 0
    ELSE 10 * DigitsToInt(SubSeq(ds, 1, Len(ds) - 1)) + DigitVal(ds[Len(ds)])

RECURSIVE Pow10(_)
Pow10(k) == IF k = 0 THEN 1 ELSE 10 * Pow10(k - 1)

\* str(n) of an int
RECURSIVE NatToStr(_)
NatToStr(n) ==
    IF n < 10 THEN <<Digits[n + 1]>>
    ELSE NatToStr(n \div 10) \o <<Digits[(n % 10) + 1]>>

IntToStr(n) == IF n < 0 THEN <<"-">> \o NatToStr(0 - n) ELSE NatToStr(n)

(***************************************************************************)
(* Python float as an exact rational, with NaN and +Infinity               *)
(***************************************************************************)
RECURSIVE Gcd(_, _)
Gcd(a, b) == IF b = 0 THEN a ELSE Gcd(b, a % b)

Abs(x) == IF x < 0 THEN 0 - x ELSE x

Rat(n, d) ==
    LET g == Gcd(Abs(n), d)
    IN  [f |-> "rat", n |-> n \div g, d |-> d \div g]

FNaN == [f |-> "nan"]

FInf == [f |-> "inf"]

NoneV == [f |-> "none"]

\* an int result
IntV(n) == [f |-> "int", n |-> n]

\* an aware datetime, at hours since the epoch
DateTime(at) == [f |-> "dt", at |-> at]

Raise(name) == [f |-> "raise", exc |-> name]

IsRaise(x) == x.f = "raise"

\* a <= b for floats; every comparison with NaN is false
FLe(a, b) ==
    CASE a.f = "nan" \/ b.f = "nan" -> FALSE
      [] b.f = "inf" -> TRUE
      [] a.f = "inf" -> FALSE
      [] OTHER -> a.n * b.d <= b.n * a.d

FLt(a, b) ==
    CASE a.f = "nan" \/ b.f = "nan" -> FALSE
      [] a.f = "inf" -> FALSE
      [] b.f = "inf" -> TRUE
      [] OTHER -> a.n * b.d < b.n * a.d

\* a * k for a float a and an int k > 0
FScale(a, k) == IF a.f = "rat" THEN Rat(a.n * k, a.d) ELSE a

\* a * b for floats with b finite and positive
FMul(a, b) == IF a.f = "rat" THEN Rat(a.n * b.n, a.d * b.d) ELSE a

\* a / b for finite a and finite b > 0
FDiv(a, b) == Rat(a.n * b.d, a.d * b.n)

FAdd(a, b) == Rat(a.n * b.d + b.n * a.d, a.d * b.d)

\* bool(x) of an Optional[float]: None and 0.0 are falsy, NaN is truthy
Truthy(x) ==
    CASE x.f = "none" -> FALSE
      [] x.f = "rat" -> x.n # 0
      [] OTHER -> TRUE

\* int(x) of a finite float: truncation toward zero
FTrunc(x) == IF x.n >= 0 THEN x.n \div x.d ELSE 0 - ((0 - x.n) \div x.d)

FRound_Truncates(x) == x.n \div x.d

\* round(x) of a finite float x >= 0: to the nearest integer, ties to even
FRound(x) ==
    LET q == x.n \div x.d
        r == x.n % x.d
    IN  CASE 2 * r < x.d -> q
          [] 2 * r > x.d -> q + 1
          [] OTHER -> IF q % 2 = 0 THEN q ELSE q + 1

(***************************************************************************)
(* Decoded JSON values                                                     *)
(***************************************************************************)
Null == [t |-> "null"]

Bool(b) == [t |-> "bool", b |-> b]

Num(n) == [t |-> "num", n |-> n]

NaN == [t |-> "nan"]

Infinity == [t |-> "inf"]

Str(s) == [t |-> "str", s |-> s]

List(items) == [t |-> "list", items |-> items]

\* items: a sequence of <<key, value>> pairs with distinct keys
Dict(items) == [t |-> "dict", items |-> items]

IsDict(v) == v.t = "dict"

IsList(v) == v.t = "list"

\* isinstance(value, (int, float)); bool is a subclass of int
IsNumber(v) == v.t \in {"bool", "num", "nan", "inf"}

\* key in record
HasKey(rec, key) == \E i \in 1..Len(rec.items) : rec.items[i][1] = key

\* record.get(key), None when absent
Get(rec, key) ==
    IF HasKey(rec, key)
    THEN rec.items[CHOOSE i \in 1..Len(rec.items) : rec.items[i][1] = key][2]
    ELSE Null

\* float(value) of a number
ToFloat(v) ==
    CASE v.t = "bool" -> Rat(IF v.b THEN 1 ELSE 0, 1)
      [] v.t = "num" -> Rat(v.n, 1)
      [] v.t = "nan" -> FNaN
      [] v.t = "inf" -> FInf

\* int(value) of a number: IntV(k), or the exception NaN and Infinity raise
ToInt(v) ==
    CASE v.t = "bool" -> IntV(IF v.b THEN 1 ELSE 0)
      [] v.t = "num" -> IntV(v.n)
      [] v.t = "nan" -> Raise("ValueError")
      [] v.t = "inf" -> Raise("OverflowError")

\* str(value): a str is itself, None is "None"; the containers that stand
\* where a scalar is expected are empty in the inputs of the model
ToStr(v) ==
    CASE v.t = "str" -> v.s
      [] v.t = "null" -> <<"N","o","n","e">>
      [] v.t = "bool" -> IF v.b THEN <<"T","r","u","e">> ELSE <<"F","a","l","s","e">>
      [] v.t = "num" -> IntToStr(v.n)
      [] v.t = "nan" -> <<"n","a","n">>
      [] v.t = "inf" -> <<"i","n","f">>
      [] v.t = "list" -> <<"[","]">>
      [] v.t = "dict" -> <<"{","}">>

(***************************************************************************)
(* Regular expressions of the source                                       *)
(***************************************************************************)
\* where re.search(r"-?\d+(?:\.\d+)?", s) matches: the leftmost position that
\* holds a digit, or a minus sign followed by a digit; 0 when there is none
NumberStart(s) ==
    LET starts == {i \in 1..Len(s) :
                     \/ IsDigit(s[i])
                     \/ s[i] = "-" /\ i < Len(s) /\ IsDigit(s[i + 1])}
    IN  IF starts = {} THEN 0
        ELSE CHOOSE i \in starts : \A j \in starts : i <= j

\* float(match.group()) of that match: sign, digits, and a fraction when a
\* dot and at least one digit follow
NumberAt(s, i) ==
    LET neg == s[i] = "-"
        a == IF neg THEN i + 1 ELSE i
        k == DigitRun(s, a)
        whole == DigitsToInt(SubSeq(s, a, a + k - 1))
        dot == a + k
        fk == IF dot <= Len(s) /\ s[dot] = "." THEN DigitRun(s, dot + 1) ELSE 0
        frac == DigitsToInt(SubSeq(s, dot + 1, dot + fk))
        mag == Rat(whole * Pow10(fk) + frac, Pow10(fk))
    IN  IF neg THEN Rat(0 - mag.n, mag.d) ELSE mag

\* where re.search(r"\d+", s) matches: the first digit; 0 when there is none
DigitsStart(s) ==
    LET starts == {i \in 1..Len(s) : IsDigit(s[i])}
    IN  IF starts = {} THEN 0
        ELSE CHOOSE i \in starts : \A j \in starts : i <= j

\* int(match.group()) of the digit run that starts at i
IntAt(s, i) == DigitsToInt(SubSeq(s, i, i + DigitRun(s, i) - 1))

\* re.findall(r"\d+", s) as ints: every maximal run of digits, in order
RECURSIVE FindAllInts(_, _)
FindAllInts(s, i) ==
    IF i > Len(s) THEN << >>
    ELSE IF IsDigit(s[i])
         THEN <<IntAt(s, i)>> \o FindAllInts(s, i + DigitRun(s, i))
         ELSE FindAllInts(s, i + 1)

(***************************************************************************)
(* parse_amount                                                            *)
(***************************************************************************)
parse_amount(value) ==
    IF value.t = "null" THEN NoneV
    ELSE IF IsNumber(value) THEN ToFloat(value)
    ELSE
      LET Positive(amount) == IF amount.n <= 0 THEN NoneV ELSE amount
          Matched(body, at, multiplier) ==
              IF at = 0 THEN NoneV
              ELSE Positive(FScale(NumberAt(body, at), multiplier))
          Searched(body, multiplier) == Matched(body, NumberStart(body), multiplier)
          Suffixed(text, multiplier) ==
              Searched(IF multiplier = 1 THEN text
                       ELSE SubSeq(text, 1, Len(text) - 1), multiplier)
          Cleaned(text) ==
              IF text = << >> THEN NoneV
              ELSE Suffixed(text, CASE EndsWith(text, <<"M">>) -> 1000000
                                    [] EndsWith(text, <<"K">>) -> 1000
                                    [] OTHER -> 1)
      IN  Cleaned(Strip(Remove(Remove(Remove(Upper(ToStr(value)), <<",">>),
                                      <<"A","E","D">>), <<"D","H">>)))

(***************************************************************************)
(* Calendar: datetime(y, m, d, H) as hours since the epoch                 *)
(***************************************************************************)
IsLeap(y) == (y % 4 = 0 /\ y % 100 # 0) \/ y % 400 = 0

DaysInMonth(y, m) ==
    CASE m \in {4, 6, 9, 11} -> 30
      [] m = 2 -> IF IsLeap(y) THEN 29 ELSE 28
      [] OTHER -> 31

\* the number of days from 1970-01-01 to the civil date y-m-d
DaysFromCivil(y, m, d) ==
    LET yy == IF m <= 2 THEN y - 1 ELSE y
        era == yy \div 400
        yoe == yy - era * 400
        mp == IF m > 2 THEN m - 3 ELSE m + 9
        doy == (153 * mp + 2) \div 5 + d - 1
        doe == yoe * 365 + yoe \div 4 - yoe \div 100 + doy
    IN  era * 146097 + doe - 719468

HoursOf(y, m, d, h) == DaysFromCivil(y, m, d) * 24 + h

\* timedelta(days=n) in hours
DaysDelta(n) == n * 24

\* the fields datetime.strptime(text, fmt) reads, for a format given as a
\* sequence of directives ("Y": four digits; "m", "d", "H", "M", "S": two
\* digits) and literal characters; ok is FALSE where strptime raises
\* ValueError.  Fields are zero-padded in the inputs of the model.
RECURSIVE ReadFields(_, _, _)
ReadFields(text, fmt, acc) ==
    IF fmt = << >>
    THEN [acc EXCEPT !.ok = (text = << >>)]
    ELSE LET tok == Head(fmt)
             w == IF tok = "Y" THEN 4 ELSE 2
         IN  IF tok \in {"Y", "m", "d", "H", "M", "S"}
             THEN IF Len(text) >= w /\ \A i \in 1..w : IsDigit(text[i])
                  THEN ReadFields(SubSeq(text, w + 1, Len(text)), Tail(fmt),
                                  [acc EXCEPT ![tok] = DigitsToInt(SubSeq(text, 1, w))])
                  ELSE [acc EXCEPT !.ok = FALSE]
             ELSE IF text # << >> /\ Head(text) = tok
                  THEN ReadFields(Tail(text), Tail(fmt), acc)
                  ELSE [acc EXCEPT !.ok = FALSE]

Strptime(text, fmt) ==
    LET Valid(r) ==
            IF /\ r.ok
               /\ r.Y >= 1 /\ r.m \in 1..12 /\ r.d \in 1..DaysInMonth(r.Y, r.m)
               /\ r.H \in 0..23 /\ r.M \in 0..59 /\ r.S \in 0..61
            THEN DateTime(HoursOf(r.Y, r.m, r.d, r.H))
            ELSE NoneV
    IN  Valid(ReadFields(text, fmt,
                 [ok |-> TRUE, Y |-> 1900, m |-> 1, d |-> 1, H |-> 0, M |-> 0, S |-> 0]))

\* the formats parse_datetime tries in order once fromisoformat has failed
DateFormats ==
    << <<"Y","-","m","-","d"," ","H",":","M",":","S">>,
       <<"Y","-","m","-","d">>,
       <<"d","/","m","/","Y">>,
       <<"d","-","m","-","Y">>,
       <<"m","/","d","/","Y">>,
       <<"Y","/","m","/","d">> >>

\* the ISO 8601 forms of the model: date only, date and time, and date and
\* time at offset +00:00; other ISO forms are not among its inputs
IsoForms ==
    { <<"Y","-","m","-","d">>,
      <<"Y","-","m","-","d","+","0","0",":","0","0">>,
      <<"Y","-","m","-","d"," ","H",":","M",":","S">>,
      <<"Y","-","m","-","d","T","H",":","M",":","S">>,
      <<"Y","-","m","-","d","T","H",":","M",":","S","+","0","0",":","0","0">> }

\* datetime.fromisoformat(text), None where it raises ValueError
FromIsoFormat(text) ==
    LET Only(hits) == IF hits = {} THEN NoneV ELSE CHOOSE r \in hits : TRUE
    IN  Only({r \in {Strptime(text, fm) : fm \in IsoForms} : r.f = "dt"})

\* ts > 10**12, written so that no intermediate value leaves 32 bits
Above1e12(n) ==
    \/ n \div 1000000 > 1000000
    \/ n \div 1000000 = 1000000 /\ n % 1000000 > 0

\* datetime.fromtimestamp(ts, tz=utc) of a finite ts (hour resolution)
FromTimestamp(ts) == DateTime(ts \div 3600)

(***************************************************************************)
(* parse_datetime                                                          *)
(***************************************************************************)
parse_datetime(value) ==
    IF value.t = "null" THEN NoneV
    ELSE IF value.t = "nan"
    THEN \* every range test is false but `ts > 10**9` is too: unparseable
         NoneV
    ELSE IF value.t = "inf"
    THEN \* inf / 1000.0 is inf, and fromtimestamp(inf) raises
         Raise("OverflowError")
    ELSE IF IsNumber(value)
    THEN LET Ranged(ymd, ts) ==
                 CASE ymd.f = "dt" -> ymd
                   [] ts > 1000000000 -> FromTimestamp(ts)
                   [] 1900 <= ts /\ ts <= 2200 -> DateTime(HoursOf(ts, 1, 1, 0))
                   [] OTHER -> NoneV
             Numeric(ts0) ==
                 Ranged(IF 10000000 <= ts0 /\ ts0 <= 99999999
                        THEN Strptime(IntToStr(ts0), <<"Y","m","d">>)
                        ELSE NoneV,
                        IF Above1e12(ts0) THEN ts0 \div 1000 ELSE ts0)
         IN  Numeric(ToFloat(value).n)
    ELSE LET \* the result of the first format that matches
             FirstOf(hits) == IF hits = << >> THEN NoneV ELSE Head(hits)
             Tried(text, iso, parsed) ==
                 IF text = << >> THEN NoneV
                 ELSE IF iso.f = "dt" THEN iso
                 ELSE FirstOf(SelectSeq(parsed, LAMBDA r : r.f = "dt"))
             Textual(text) ==
                 Tried(text,
                       FromIsoFormat(Replace(text, <<"Z">>, <<"+","0","0",":","0","0">>)),
                       [i \in 1..Len(DateFormats) |-> Strptime(text, DateFormats[i])])
         IN  Textual(Strip(ToStr(value)))

(***************************************************************************)
(* Field-name tables                                                       *)
(***************************************************************************)
STATUS_KEYS ==
    << <<"c","o","n","t","r","a","c","t","_","r","e","n","e","w","a","l","_","s","t","a","t","u","s">>,
       <<"r","e","n","e","w","a","l","_","s","t","a","t","u","s">>,
       <<"i","s","_","r","e","n","e","w","a","l">>,
       <<"c","o","n","t","r","a","c","t","_","t","y","p","e","_","e","n">>,
       <<"c","o","n","t","r","a","c","t","_","t","y","p","e">> >>

UNIT_KEYS ==
    << <<"p","r","o","p","e","r","t","y","_","s","u","b","_","t","y","p","e","_","e","n">>,
       <<"p","r","o","p","e","r","t","y","_","t","y","p","e","_","e","n">>,
       <<"u","n","i","t","_","t","y","p","e","_","e","n">>,
       <<"u","n","i","t","_","t","y","p","e">>,
       <<"r","o","o","m","s","_","e","n">>,
       <<"r","o","o","m","s">>,
       <<"r","o","o","m","_","c","o","u","n","t">>,
       <<"b","e","d","r","o","o","m","s">> >>

RENT_KEYS ==
    << <<"a","n","n","u","a","l","_","r","e","n","t">>,
       <<"a","n","n","u","a","l","_","r","e","n","t","_","a","m","o","u","n","t">>,
       <<"a","n","n","u","a","l","_","a","m","o","u","n","t">>,
       <<"y","e","a","r","l","y","_","r","e","n","t">>,
       <<"y","e","a","r","l","y","_","a","m","o","u","n","t">>,
       <<"r","e","n","t","_","a","m","o","u","n","t">>,
       <<"a","c","t","u","a","l","_","w","o","r","t","h">>,
       <<"c","o","n","t","r","a","c","t","_","a","m","o","u","n","t">>,
       <<"a","m","o","u","n","t">>,
       <<"m","o","n","t","h","l","y","_","r","e","n","t">> >>

candidate_keys ==
    << <<"d","a","t","a">>,
       <<"r","e","s","u","l","t","s">>,
       <<"r","e","s","u","l","t">>,
       <<"r","e","c","o","r","d","s">>,
       <<"i","t","e","m","s">>,
       <<"r","o","w","s">>,
       <<"v","a","l","u","e">> >>

\* field names the source reads by literal
KEY_room_count == <<"r","o","o","m","_","c","o","u","n","t">>

KEY_rooms == <<"r","o","o","m","s">>

KEY_contract == <<"c","o","n","t","r","a","c","t">>

KEY_monthly_amount == <<"m","o","n","t","h","l","y","_","a","m","o","u","n","t">>

KEY_duration_months == <<"d","u","r","a","t","i","o","n","_","m","o","n","t","h","s">>

KEY_amount == <<"a","m","o","u","n","t">>

KEY_hits == <<"h","i","t","s">>

KEY_locations == <<"l","o","c","a","t","i","o","n","s">>

KEY_id == <<"i","d">>

KEY_location_id == <<"l","o","c","a","t","i","o","n","_","i","d">>

KEY_externalID == <<"e","x","t","e","r","n","a","l","I","D">>

KEY_name == <<"n","a","m","e">>

KEY_full_name == <<"f","u","l","l","_","n","a","m","e">>

KEY_city_name == <<"c","i","t","y","_","n","a","m","e">>

KEY_contract_type == <<"c","o","n","t","r","a","c","t","_","t","y","p","e">>

KEY_date == <<"d","a","t","e">>

KEY_property == <<"p","r","o","p","e","r","t","y">>

KEY_beds == <<"b","e","d","s">>

KEY_transactions == <<"t","r","a","n","s","a","c","t","i","o","n","s">>

IsCand(c) == c.f = "cand"

\* x in seq
InSeq(x, seq) == \E i \in 1..Len(seq) : seq[i] = x

\* any(token in text for token in tokens)
ContainsAny(text, tokens) == \E i \in 1..Len(tokens) : Contains(text, tokens[i])

\* a classification label
Label(v) == [f |-> "label", v |-> v]

\* bool(value) of a decoded JSON value
JTruthy(v) ==
    CASE v.t = "null" -> FALSE
      [] v.t = "bool" -> v.b
      [] v.t = "num" -> v.n # 0
      [] v.t = "str" -> v.s # << >>
      [] v.t \in {"list", "dict"} -> v.items # << >>
      [] OTHER -> TRUE

(***************************************************************************)
(* extract_records                                                         *)
(***************************************************************************)
\* [item for item in value if isinstance(item, dict)]
OnlyDicts(items) == SelectSeq(items, IsDict)

\* the result of the nested scan under one wrapper key: the list found under
\* the first nested key that holds a list, NoneV when there is none
NestedList(value) ==
    LET First(found) ==
            IF found = << >> THEN NoneV
            ELSE [f |-> "rows", rows |-> OnlyDicts(Head(found).items)]
    IN  First(SelectSeq([j \in 1..Len(candidate_keys) |-> Get(value, candidate_keys[j])],
                        IsList))

\* what the loop over candidate_keys returns at key number i, NoneV when it
\* falls through to the next key
AtCandidate(payload, i) ==
    LET Of(value) ==
            CASE IsList(value) -> [f |-> "rows", rows |-> OnlyDicts(value.items)]
              [] IsDict(value) -> NestedList(value)
              [] OTHER -> NoneV
    IN  Of(Get(payload, candidate_keys[i]))

extract_records(payload) ==
    IF IsList(payload) THEN OnlyDicts(payload.items)
    ELSE IF ~IsDict(payload) THEN << >>
    ELSE
      LET \* found: what the candidate keys return, in order; lists: the
          \* values that are lists whose first element is a dict, in order
          Scan(found, lists) ==
              IF found # << >> THEN Head(found).rows
              ELSE IF lists # << >> THEN Head(lists).items
              ELSE << >>
      IN  Scan(SelectSeq([i \in 1..Len(candidate_keys) |-> AtCandidate(payload, i)],
                         LAMBDA r : r.f = "rows"),
               SelectSeq([i \in 1..Len(payload.items) |-> payload.items[i][2]],
                         LAMBDA v : /\ IsList(v)
                                    /\ v.items # << >>
                                    /\ IsDict(v.items[1])))

(***************************************************************************)
(* parse_target_bedrooms, parse_bed_value                                  *)
(***************************************************************************)
parse_target_bedrooms(unit_type) ==
    LET Found(text, at) ==
            IF Contains(text, <<"s","t","u","d","i","o">>) THEN IntV(0)
            ELSE IF at # 0 THEN IntV(IntAt(text, at))
            ELSE NoneV
        Of(text) == Found(text, DigitsStart(text))
    IN  Of(Strip(Lower(unit_type)))

parse_bed_value(value) ==
    IF value.t = "null" THEN NoneV
    ELSE IF IsNumber(value)
    THEN LET Counted(bed_count) ==
                 IF IsRaise(bed_count) THEN bed_count
                 ELSE IF 0 <= bed_count.n /\ bed_count.n <= 10 THEN bed_count
                 ELSE NoneV
         IN  Counted(ToInt(value))
    ELSE LET Found(text, at) ==
                 IF text = << >> THEN NoneV
                 ELSE IF Contains(text, <<"s","t","u","d","i","o">>) THEN IntV(0)
                 ELSE IF at # 0 THEN IntV(IntAt(text, at))
                 ELSE NoneV
             Of(text) == Found(text, DigitsStart(text))
         IN  Of(Lower(Strip(ToStr(value))))

(***************************************************************************)
(* classify_contract_status                                                *)
(***************************************************************************)
\* what the loop body returns for one value of a status field; NoneV where
\* the body ends without returning and the loop goes on to the next key
StatusOfValue(value) ==
    LET Of(iv, text) ==
            IF value.t = "null" THEN NoneV
            ELSE IF value.t = "bool" THEN Label(IF value.b THEN "renewal" ELSE "new")
            ELSE IF IsRaise(iv) THEN iv
            ELSE IF iv.f = "int" /\ iv.n = 0 THEN Label("new")
            ELSE IF iv.f = "int" /\ iv.n = 1 THEN Label("renewal")
            ELSE IF text = << >> THEN NoneV
            ELSE IF Contains(text, <<"r","e","n","e","w">>) THEN Label("renewal")
            ELSE IF ContainsAny(text, << <<"n","e","w">>, <<"i","n","i","t","i","a","l">>,
                                         <<"f","i","r","s","t">> >>)
            THEN Label("new")
            ELSE IF InSeq(text, << <<"0">>, <<"f","a","l","s","e">>, <<"n","o">>, <<"n">> >>)
            THEN Label("new")
            ELSE IF InSeq(text, << <<"1">>, <<"t","r","u","e">>, <<"y","e","s">>, <<"y">> >>)
            THEN Label("renewal")
            ELSE NoneV
    IN  Of(IF IsNumber(value) /\ value.t # "bool" THEN ToInt(value) ELSE NoneV,
           Lower(Strip(ToStr(value))))

classify_contract_status(record) ==
    LET \* what each status key returns, in order; NoneV for an absent key
        AtKey(key) == IF HasKey(record, key) THEN StatusOfValue(Get(record, key))
                      ELSE NoneV
        First(found) == IF found = << >> THEN Label("unknown") ELSE Head(found)
    IN  First(SelectSeq([i \in 1..Len(STATUS_KEYS) |-> AtKey(STATUS_KEYS[i])],
                        LAMBDA r : r.f # "none"))

(***************************************************************************)
(* extract_record_bedrooms, record_matches_target_unit                     *)
(***************************************************************************)
is_unit_key(key) ==
    \/ InSeq(key, UNIT_KEYS)
    \/ Contains(key, <<"b","e","d">>)
    \/ InSeq(key, << KEY_room_count, KEY_rooms >>)

\* the ints of a sequence that are bedroom counts
SmallInts(ns) == {ns[i] : i \in {j \in 1..Len(ns) : 0 <= ns[j] /\ ns[j] <= 10}}

\* what one item of the record adds to (bedrooms, saw_unit_field), or the
\* exception int(value) raises
BedroomsOfItem(key, value) ==
    LET nothing == [f |-> "beds", bedrooms |-> {}, saw |-> FALSE]
        Textual(text, studio, matches) ==
            IF text = << >> THEN nothing
            ELSE [f |-> "beds",
                  bedrooms |-> (IF studio THEN {0} ELSE {}) \cup SmallInts(matches),
                  saw |-> studio \/ matches # << >>]
        OfText(text) ==
            Textual(text, Contains(text, <<"s","t","u","d","i","o">>), FindAllInts(text, 1))
        Of(candidate) ==
            IF ~is_unit_key(key) THEN nothing
            ELSE IF value.t = "null" THEN nothing
            ELSE IF IsRaise(candidate) THEN candidate
            ELSE IF candidate.f = "int"
            THEN IF 0 <= candidate.n /\ candidate.n <= 10
                 THEN [f |-> "beds", bedrooms |-> {candidate.n}, saw |-> TRUE]
                 ELSE nothing
            ELSE OfText(Lower(Strip(ToStr(value))))
    IN  Of(IF IsNumber(value) THEN ToInt(value) ELSE NoneV)

extract_record_bedrooms(record) ==
    LET \* found: what each item adds, in order
        Merge(found, raising) ==
            IF raising # << >> THEN Head(raising)
            ELSE [f |-> "beds",
                  bedrooms |-> UNION {found[i].bedrooms : i \in 1..Len(found)},
                  saw |-> \E i \in 1..Len(found) : found[i].saw]
        Of(found) == Merge(found, SelectSeq(found, IsRaise))
    IN  Of([i \in 1..Len(record.items) |->
              BedroomsOfItem(record.items[i][1], record.items[i][2])])

record_matches_target_unit_Lenient(record, target_bedrooms) ==
    LET Of(r) ==
            IF IsRaise(r) THEN r
            ELSE IF target_bedrooms.f = "none" \/ ~r.saw
            THEN [f |-> "pair", matches |-> TRUE, has_unit_info |-> r.saw]
            ELSE [f |-> "pair", matches |-> target_bedrooms.n \in r.bedrooms,
                  has_unit_info |-> TRUE]
    IN  Of(extract_record_bedrooms(record))

\* the pair (matches, has_unit_info); target_bedrooms is IntV(k) or NoneV
record_matches_target_unit(record, target_bedrooms) ==
    LET Of(r) ==
            IF IsRaise(r) THEN r
            ELSE IF target_bedrooms.f = "none"
            THEN [f |-> "pair", matches |-> TRUE, has_unit_info |-> r.saw]
            ELSE IF ~r.saw
            THEN [f |-> "pair", matches |-> FALSE, has_unit_info |-> FALSE]
            ELSE IF r.bedrooms = {}
            THEN [f |-> "pair", matches |-> FALSE, has_unit_info |-> TRUE]
            ELSE [f |-> "pair", matches |-> target_bedrooms.n \in r.bedrooms,
                  has_unit_info |-> TRUE]
    IN  Of(extract_record_bedrooms(record))

(***************************************************************************)
(* extract_annual_rent                                                     *)
(***************************************************************************)
MinAnnualRent == 10000

MaxAnnualRent == 5000000

\* 10_000 <= amount <= 5_000_000
InBand_NoUpperLimit(amount) == FLe(Rat(MinAnnualRent, 1), amount)

InBand(amount) ==
    FLe(Rat(MinAnnualRent, 1), amount) /\ FLe(amount, Rat(MaxAnnualRent, 1))

\* the amount one field yields: parsed, times 12 under a monthly key;
\* NoneV when it does not parse or falls outside the band
RentOfField(key, value) ==
    LET Annual(amount) ==
            IF Contains(key, <<"m","o","n","t","h","l","y">>)
            THEN FScale(amount, 12) ELSE amount
        Accepted(amount, annual) ==
            IF amount.f = "none" THEN NoneV
            ELSE IF InBand(annual) THEN annual
            ELSE NoneV
        Of(amount) == Accepted(amount, Annual(amount))
    IN  Of(parse_amount(value))

\* whether the second loop considers a key
is_rent_like_key(key) ==
    /\ ContainsAny(key, << <<"r","e","n","t">>, <<"a","m","o","u","n","t">>,
                           <<"v","a","l","u","e">>, <<"p","r","i","c","e">> >>)
    /\ ~ContainsAny(key, << <<"s","q","f","t">>, <<"s","q","m">>,
                            <<"s","e","r","v","i","c","e">>, <<"p","l","o","t">>,
                            <<"f","e","e">> >>)

extract_annual_rent(record) ==
    LET \* what the first loop returns at a key, NoneV when it goes on
        AtKey(key) == IF HasKey(record, key) THEN RentOfField(key, Get(record, key))
                      ELSE NoneV
        \* what the second loop returns at an item
        AtItem(item) == IF is_rent_like_key(item[1]) THEN RentOfField(item[1], item[2])
                        ELSE NoneV
        First(found) == IF found = << >> THEN NoneV ELSE Head(found)
    IN  First(SelectSeq([i \in 1..Len(RENT_KEYS) |-> AtKey(RENT_KEYS[i])]
                        \o [i \in 1..Len(record.items) |-> AtItem(record.items[i])],
                        LAMBDA r : r.f # "none"))

(***************************************************************************)
(* extract_annual_rent_from_transaction                                    *)
(***************************************************************************)
\* txn.get(key) when it is a dict, else the empty dict
SubDict(txn, key) ==
    LET Of(value) == IF IsDict(value) THEN value ELSE Dict(<< >>)
    IN  Of(Get(txn, key))

\* total_amount * (12.0 / duration_months) for truthy operands with
\* duration_months > 0
Annualised(total_amount, duration_months) ==
    LET Times(ratio) ==
            CASE total_amount.f = "nan" -> FNaN
              [] total_amount.f = "inf" -> IF ratio.n = 0 THEN FNaN ELSE FInf
              [] OTHER -> FMul(total_amount, ratio)
    IN  Times(IF duration_months.f = "inf" THEN Rat(0, 1)
              ELSE FDiv(Rat(12, 1), duration_months))

extract_annual_rent_from_transaction(txn) ==
    IF ~IsDict(txn) THEN NoneV
    ELSE
      LET Of(monthly_amount, duration_months, total_amount) ==
              IF Truthy(monthly_amount) THEN FScale(monthly_amount, 12)
              ELSE IF /\ Truthy(total_amount) /\ Truthy(duration_months)
                      /\ FLt(Rat(0, 1), duration_months)
              THEN Annualised(total_amount, duration_months)
              ELSE IF Truthy(total_amount) THEN total_amount
              ELSE NoneV
          In(contract) ==
              Of(parse_amount(Get(contract, KEY_monthly_amount)),
                 parse_amount(Get(contract, KEY_duration_months)),
                 parse_amount(Get(txn, KEY_amount)))
      IN  In(SubDict(txn, KEY_contract))

(***************************************************************************)
(* extract_location_ids                                                    *)
(***************************************************************************)
\* record.get(key, "")
GetOrEmpty(rec, key) == IF HasKey(rec, key) THEN Get(rec, key) ELSE Str(<< >>)

\* a or b or c
FirstTruthy(a, b, c) == IF JTruthy(a) THEN a ELSE IF JTruthy(b) THEN b ELSE c

\* rows of the locations payload: extract_records, else the list under
\* "hits" or "locations"
LocationRows(payload) ==
    LET Of(rows, hits, locations) ==
            IF rows # << >> \/ ~IsDict(payload) THEN rows
            ELSE IF IsList(hits) THEN OnlyDicts(hits.items)
            ELSE IF IsList(locations) THEN OnlyDicts(locations.items)
            ELSE rows
    IN  Of(extract_records(payload), Get(payload, KEY_hits), Get(payload, KEY_locations))

\* the (score, str(location_id)) a row contributes, NoneV when it has no id
LocationCandidate(row, area_name) ==
    LET Scored(location_id, combined) ==
            IF location_id.t = "null" THEN NoneV
            ELSE [f |-> "cand",
                  score |-> (IF Contains(combined, Lower(Strip(area_name))) THEN 2 ELSE 0)
                            + (IF Contains(combined, <<"d","u","b","a","i">>) THEN 1 ELSE 0),
                  id |-> ToStr(location_id)]
        Named(name, full_name, city) ==
            Scored(FirstTruthy(Get(row, KEY_id), Get(row, KEY_location_id),
                               Get(row, KEY_externalID)),
                   Lower(name \o <<" ">> \o full_name \o <<" ">> \o city))
    IN  Named(Strip(ToStr(GetOrEmpty(row, KEY_name))),
              Strip(ToStr(GetOrEmpty(row, KEY_full_name))),
              Strip(ToStr(GetOrEmpty(row, KEY_city_name))))

\* the ids of a sequence of candidates, each once, in order
RECURSIVE DistinctIds(_, _)
DistinctIds(cands, seen) ==
    IF cands = << >> THEN << >>
    ELSE IF Head(cands).id \in seen THEN DistinctIds(Tail(cands), seen)
    ELSE <<Head(cands).id>> \o DistinctIds(Tail(cands), seen \cup {Head(cands).id})

MaxLocationIds == 5

\* the pair (selected, rows), or AttributeError when a row is not a dict
extract_location_ids(payload, area_name) ==
    LET \* sorted(key=score, reverse=True) is stable
        ByScore(withId) ==
            SelectSeq(withId, LAMBDA c : c.score = 3)
            \o SelectSeq(withId, LAMBDA c : c.score = 2)
            \o SelectSeq(withId, LAMBDA c : c.score = 1)
            \o SelectSeq(withId, LAMBDA c : c.score = 0)
        Selected(ids, rows) ==
            [f |-> "ok",
             selected |-> SubSeq(ids, 1, IF Len(ids) < MaxLocationIds
                                        THEN Len(ids) ELSE MaxLocationIds),
             rows |-> rows]
        Of(rows) ==
            IF \E i \in 1..Len(rows) : ~IsDict(rows[i])
            THEN Raise("AttributeError")
            ELSE Selected(DistinctIds(ByScore(SelectSeq(
                              [i \in 1..Len(rows) |-> LocationCandidate(rows[i], area_name)],
                              IsCand)), {}),
                          rows)
    IN  Of(LocationRows(payload))

(***************************************************************************)
(* get_bayut_rent: the parts between two network calls                     *)
(***************************************************************************)
AREA_DubaiMarina == <<"D","u","b","a","i"," ","M","a","r","i","n","a">>

AREA_JVC == <<"J","u","m","e","i","r","a","h"," ","V","i","l","l","a","g","e"," ","C","i","r","c","l","e">>

AREA_Downtown == <<"D","o","w","n","t","o","w","n"," ","D","u","b","a","i">>

AREA_TheSprings == <<"T","h","e"," ","S","p","r","i","n","g","s">>

AREA_DubaiHills == <<"D","u","b","a","i"," ","H","i","l","l","s"," ","E","s","t","a","t","e">>

AREA_BusinessBay == <<"B","u","s","i","n","e","s","s"," ","B","a","y">>

UNIT_Studio == <<"S","t","u","d","i","o">>

UNIT_1Bedroom == <<"1"," ","B","e","d","r","o","o","m">>

UNIT_2Bedroom == <<"2"," ","B","e","d","r","o","o","m">>

UNIT_3Bedroom == <<"3"," ","B","e","d","r","o","o","m">>

UNIT_4Bedroom == <<"4"," ","B","e","d","r","o","o","m">>

\* fallback_index.get(area_name, {}).get(unit_type, 0)
fallback_index(area_name, unit_type) ==
    CASE area_name = AREA_DubaiMarina ->
           (CASE unit_type = UNIT_Studio -> 88000 [] unit_type = UNIT_1Bedroom -> 142000
              [] unit_type = UNIT_2Bedroom -> 218000 [] unit_type = UNIT_3Bedroom -> 325000
              [] OTHER -> 0)
      [] area_name = AREA_JVC ->
           (CASE unit_type = UNIT_Studio -> 54000 [] unit_type = UNIT_1Bedroom -> 82000
              [] unit_type = UNIT_2Bedroom -> 122000 [] unit_type = UNIT_3Bedroom -> 168000
              [] OTHER -> 0)
      [] area_name = AREA_Downtown ->
           (CASE unit_type = UNIT_Studio -> 118000 [] unit_type = UNIT_1Bedroom -> 195000
              [] unit_type = UNIT_2Bedroom -> 365000 [] unit_type = UNIT_3Bedroom -> 540000
              [] OTHER -> 0)
      [] area_name = AREA_TheSprings ->
           (CASE unit_type = UNIT_2Bedroom -> 185000 [] unit_type = UNIT_3Bedroom -> 235000
              [] unit_type = UNIT_4Bedroom -> 280000
              [] OTHER -> 0)
      [] area_name = AREA_DubaiHills ->
           (CASE unit_type = UNIT_Studio -> 82000 [] unit_type = UNIT_1Bedroom -> 118000
              [] unit_type = UNIT_2Bedroom -> 185000 [] unit_type = UNIT_3Bedroom -> 295000
              [] OTHER -> 0)
      [] OTHER -> 0

WindowDays == 183

\* the debug dict as get_bayut_rent creates it; a key the code adds later
\* is present from the start, holding "" or 0 or NoneV until it is set
NewDebug(target_bedrooms) ==
    [source |-> "bayut_api",
     target_bedrooms |-> target_bedrooms,
     location_rows_received |-> 0,
     location_ids_used |-> << >>,
     pages_fetched |-> 0,
     records_received |-> 0,
     records_new_contract |-> 0,
     records_in_last_6_months |-> 0,
     records_unit_match |-> 0,
     records_used |-> 0,
     records_not_new |-> 0,
     records_status_unknown |-> 0,
     records_missing_date |-> 0,
     records_outside_6m |-> 0,
     records_missing_unit_info |-> 0,
     records_missing_rent_amount |-> 0,
     api_status_code |-> 0,
     locations_status_code |-> 0,
     fallback_reason |-> "",
     fallback_rent_aed |-> 0,
     fallback_note |-> "",
     stats |-> NoneV]

REASON_MissingKey == "Missing Bayut RapidAPI key."

REASON_Locations401 ==
    "Bayut API returned 401 Unauthorized. Check your RapidAPI key and plan access."

REASON_NoLocationId == "Bayut locations search returned no matching location id."

REASON_Transactions401 ==
    "Bayut transactions endpoint returned 401. Confirm API key access to /transactions."

REASON_NoMatch == "No Bayut transactions matched filters."

REASON_RequestFailed == "Bayut API request failed: "

REASON_ParseFailed == "Unable to parse Bayut API payload: "

NOTE_MissingKey == "Fallback only. Add a valid Bayut key for live results."

NOTE_Locations401 ==
    "Fallback is reference only and is not guaranteed to be strictly new-contract transactions from the last 6 months."

NOTE_NoLocationId == "Fallback only. No Bayut location id available for this area."

NOTE_Transactions401 == "Fallback only. Bayut transactions request unauthorized."

NOTE_Generic ==
    "Fallback is reference only and is not guaranteed to match live Bayut transactions."

\* the (rent, debug) pair of a fallback return
FallbackReturn(c, debug, reason, note) ==
    LET fallback_rent == fallback_index(c.area_name, c.unit_type)
    IN  [rent |-> fallback_rent,
         debug |-> [debug EXCEPT !.source = "fallback_index",
                                 !.fallback_reason = reason,
                                 !.fallback_rent_aed = fallback_rent,
                                 !.fallback_note = note]]

\* sorted(rents)
RECURSIVE Insert(_, _)
Insert(x, sorted) ==
    IF sorted = << >> THEN <<x>>
    ELSE IF FLe(x, Head(sorted)) THEN <<x>> \o sorted
    ELSE <<Head(sorted)>> \o Insert(x, Tail(sorted))

RECURSIVE Sorted(_)
Sorted(rents) ==
    IF rents = << >> THEN << >>
    ELSE Insert(rents[Len(rents)], Sorted(SubSeq(rents, 1, Len(rents) - 1)))

RECURSIVE Sum(_)
Sum(rents) == IF rents = << >> THEN Rat(0, 1) ELSE FAdd(Head(rents), Sum(Tail(rents)))

SampleSize == 5

\* the statistics of a non-empty list of rents
Aggregate(rents) ==
    LET Stats(rents_sorted, n, avg_rent, median_rent) ==
            [f |-> "stats",
             sample_rents_aed |-> [i \in 1..(IF n < SampleSize THEN n ELSE SampleSize)
                                     |-> FTrunc(rents_sorted[i])],
             min_rent_aed |-> FTrunc(rents_sorted[1]),
             max_rent_aed |-> FTrunc(rents_sorted[n]),
             avg_rent_aed |-> avg_rent,
             median_rent |-> median_rent,
             median_rent_aed |-> FRound(median_rent)]
        Half(two) == Rat(two.n, two.d * 2)
        Mean(total, n) == FRound(Rat(total.n, total.d * n))
        Middle(rents_sorted, n, mid) ==
            IF n % 2 = 1 THEN rents_sorted[mid + 1]
            ELSE Half(FAdd(rents_sorted[mid], rents_sorted[mid + 1]))
        Of(rents_sorted, n) ==
            Stats(rents_sorted, n, Mean(Sum(rents_sorted), n),
                  Middle(rents_sorted, n, n \div 2))
        OfSorted(rents_sorted) == Of(rents_sorted, Len(rents_sorted))
    IN  OfSorted(Sorted(rents))

\* the records of a transactions page: extract_records, else the dicts of
\* the list under "transactions"
PageRecords(page_payload) ==
    LET Of(records, page_records) ==
            IF records = << >> /\ IsDict(page_payload) /\ IsList(page_records)
            THEN OnlyDicts(page_records.items)
            ELSE records
    IN  Of(extract_records(page_payload), Get(page_payload, KEY_transactions))

Bump(debug, counter) == [debug EXCEPT ![counter] = @ + 1]

OutsideWindow_NoUpperLimit(transaction_date, c) ==
    transaction_date.at < c.six_month_window_start

\* line 602: whether the date lies outside the window of call c
OutsideWindow(transaction_date, c) ==
    \/ transaction_date.at < c.six_month_window_start
    \/ transaction_date.at > c.now + DaysDelta(1)

\* one iteration of `for txn in records`.  st holds debug, rents, the
\* records whose rent was appended (used) and the exception raised so far
ProcessTxn(st, txn, c) ==
    IF ~IsDict(txn) THEN [st EXCEPT !.exc = "AttributeError"]
    ELSE
      LET Filtered(contract_type, transaction_date, bed_count, rent_amount) ==
              LET renew == contract_type # << >>
                           /\ Contains(contract_type, <<"r","e","n","e","w">>)
                  d1 == IF contract_type = << >> THEN st.debug
                        ELSE IF Contains(contract_type, <<"n","e","w">>)
                        THEN Bump(st.debug, "records_new_contract")
                        ELSE Bump(st.debug, "records_status_unknown")
                  d2 == Bump(d1, "records_in_last_6_months")
                  d3 == Bump(d2, "records_unit_match")
              IN  IF renew THEN [st EXCEPT !.debug = Bump(st.debug, "records_not_new")]
                  ELSE IF IsRaise(transaction_date)
                  THEN [st EXCEPT !.debug = d1, !.exc = transaction_date.exc]
                  ELSE IF transaction_date.f = "none"
                  THEN [st EXCEPT !.debug = Bump(d1, "records_missing_date")]
                  ELSE IF OutsideWindow(transaction_date, c)
                  THEN [st EXCEPT !.debug = Bump(d1, "records_outside_6m")]
                  ELSE IF IsRaise(bed_count)
                  THEN [st EXCEPT !.debug = d2, !.exc = bed_count.exc]
                  ELSE IF c.target_bedrooms.f # "none" /\ bed_count.f = "none"
                  THEN [st EXCEPT !.debug = Bump(d2, "records_missing_unit_info")]
                  ELSE IF c.target_bedrooms.f # "none" /\ bed_count.n # c.target_bedrooms.n
                  THEN [st EXCEPT !.debug = d2]
                  ELSE IF rent_amount.f = "none" \/ ~InBand(rent_amount)
                  THEN [st EXCEPT !.debug = Bump(d3, "records_missing_rent_amount")]
                  ELSE [st EXCEPT !.debug = Bump(d3, "records_used"),
                                  !.rents = Append(@, rent_amount),
                                  !.used = Append(@, txn)]
      IN  Filtered(Lower(Strip(ToStr(GetOrEmpty(SubDict(txn, KEY_contract),
                                                KEY_contract_type)))),
                   parse_datetime(Get(txn, KEY_date)),
                   parse_bed_value(Get(SubDict(txn, KEY_property), KEY_beds)),
                   extract_annual_rent_from_transaction(txn))

\* `for txn in records`, from record number i up to the end or an exception
RECURSIVE ProcessRecords(_, _, _, _)
ProcessRecords(st, records, i, c) ==
    IF i > Len(records) \/ st.exc # "none" THEN st
    ELSE ProcessRecords(ProcessTxn(st, records[i], c), records, i + 1, c)

PageSize == 20

MaxPages == 3

(***************************************************************************)
(* The script: sidebar inputs, session state and what a run displays       *)
(***************************************************************************)
BAYUT_API_KEY == "8a50c7f41cmshab66c3d205f1b02p1cc073jsn3d4f714a5a14"

map_bayut_category(property_type) ==
    CASE property_type = "Apartment" -> "apartments"
      [] property_type = "Villa" -> "villas"
      [] property_type = "Townhouse" -> "townhouses"
      [] OTHER -> "apartments"

\* the sidebar's financial inputs, at the defaults of the widgets
unit_price == 1500000

unit_size == 800

service_charge == 16

commission_pct == 2

occupancy == 92

TransferFeePct == 4

TrusteeFee == 4580

\* lines 727-739: the investment summary for a final_rent > 0
InvestmentSummary(final_rent) ==
    LET total_entry == Rat(unit_price * (100 + TransferFeePct + commission_pct)
                           + TrusteeFee * 100, 100)
        net_income == FAdd(Rat(final_rent.n * occupancy, final_rent.d * 100),
                           Rat(0 - unit_size * service_charge, 1))
        \* (net_income / total_entry) * 100
        roi == FDiv(net_income, Rat(total_entry.n, total_entry.d * 100))
    IN  [f |-> "roi",
         final_rent |-> final_rent,
         total_entry |-> total_entry,
         net_income |-> net_income,
         roi |-> roi,
         emoji |-> CASE FLe(Rat(6, 1), roi) -> "green"
                     [] FLe(Rat(4, 1), roi) -> "yellow"
                     [] OTHER -> "red"]

\* lines 670-693: the label of the status box of a run that fetched
StatusLabel(rent, fetch_debug) ==
    CASE rent > 0 /\ fetch_debug.source = "bayut_api" ->
           "Bayut transactions loaded (new contracts, last 6 months)."
      [] rent > 0 /\ fetch_debug.api_status_code = 401 ->
           "Bayut API authorization required. Using fallback estimate."
      [] rent > 0 ->
           "Bayut API filter unavailable. Fallback index value loaded."
      [] OTHER ->
           "No qualified Bayut transactions found. Enter rent manually."

\* lines 695-739: what a run displays from the session state; input is the
\* value the user typed into "Annual Rent (AED)", NoneV for the default
Render(sess, input, status) ==
    IF ~sess.data_fetched
    THEN [f |-> "page", status |-> status, box |-> "none", final_rent |-> NoneV,
          info_401 |-> FALSE, roi |-> NoneV]
    ELSE
      LET source == sess.fetch_debug.source
          default == IF sess.scraped_rent > 0 THEN Rat(sess.scraped_rent, 1)
                     ELSE Rat(0, 1)
          final_rent == IF input.f = "none" THEN default ELSE input
      IN  [f |-> "page",
           status |-> status,
           box |-> CASE sess.scraped_rent > 0 /\ source = "bayut_api" -> "success_live"
                     [] sess.scraped_rent > 0 -> "warning_fallback"
                     [] OTHER -> "warning_enter_manually",
           final_rent |-> final_rent,
           info_401 |-> source # "bayut_api" /\ sess.fetch_debug.api_status_code = 401,
           roi |-> IF FLt(Rat(0, 1), final_rent) THEN InvestmentSummary(final_rent)
                   ELSE NoneV]

(***************************************************************************)
(* The environment: what the user picks and what the API answers           *)
(***************************************************************************)
\* an omitted key
Absent == [t |-> "absent"]

\* a dict of the pairs whose value is not Absent
MakeDict(pairs) == Dict(SelectSeq(pairs, LAMBDA kv : kv[2] # Absent))

\* a transaction in the schema get_bayut_rent reads
Txn(contract_type, date, beds, monthly_amount, duration_months, amount) ==
    LET contract == MakeDict(<< <<KEY_contract_type, contract_type>>,
                                <<KEY_monthly_amount, monthly_amount>>,
                                <<KEY_duration_months, duration_months>> >>)
        property == MakeDict(<< <<KEY_beds, beds>> >>)
    IN  MakeDict(<< <<KEY_date, date>>,
                    <<KEY_contract, IF contract.items = << >> THEN Absent ELSE contract>>,
                    <<KEY_property, IF property.items = << >> THEN Absent ELSE property>>,
                    <<KEY_amount, amount>> >>)

\* datetime.now(timezone.utc) of the two queries of the model:
\* 2025-03-15T12:00Z and 2025-03-16T00:00Z
QueryTimes == {HoursOf(2025, 3, 15, 12), HoursOf(2025, 3, 16, 0)}

Areas == {AREA_DubaiMarina, AREA_BusinessBay}

\* (property type, unit type) pairs the two selectboxes offer
UnitChoices == { <<"Apartment", UNIT_Studio>>, <<"Apartment", UNIT_1Bedroom>>,
                 <<"Villa", UNIT_2Bedroom>> }

S_New == Str(<<"N","e","w">>)

S_Renewal == Str(<<"R","e","n","e","w","a","l">>)

D_InWindow == Str(<<"2","0","2","5","-","0","3","-","0","1">>)

\* dates around the two windows: before both, the first window's start to
\* the second, 12 h, 24 h and 25 h after the first query time, after both
DateValues ==
    { Absent, Null, D_InWindow, Str(<<"a","b","c">>), Str(<<"0","1","/","0","3","/","2","0","2","5">>), NaN, Infinity,
      Num(20240901), Num(1726228800), Num(1742083200),
      Str(<<"2","0","2","5","-","0","3","-","1","6"," ","1","2",":","0","0",":","0","0">>), Str(<<"2","0","2","5","-","0","3","-","1","6"," ","1","3",":","0","0",":","0","0">>), Num(20250318),
      Num(2025) }

ContractTypeValues == { Absent, Null, S_New, S_Renewal, Str(<<"O","t","h","e","r">>), Str(<<" ","r","e","n","e","w","e","d"," ">>) }

BedsValues ==
    { Absent, Null, Num(0), Num(1), Num(2), Num(15), Bool(TRUE), Str(<<"2"," ","B","R">>),
      Str(<<"S","t","u","d","i","o">>), Str(<<"n","/","a">>), NaN, Infinity }

\* (monthly_amount, duration_months, amount) triples
RentValues ==
    { <<Absent, Absent, Num(142000)>>, <<Absent, Absent, Str(<<"1","4","2",",","0","0","0"," ","A","E","D">>)>>,
      <<Absent, Absent, Absent>>, <<Absent, Absent, Num(0)>>,
      <<Absent, Absent, Num(9999)>>, <<Absent, Absent, Num(10000)>>,
      <<Absent, Absent, Num(5000000)>>, <<Absent, Absent, Num(5000001)>>,
      <<Absent, Absent, NaN>>, <<Absent, Absent, Infinity>>,
      <<Absent, Absent, Str(<<"1",".","5","M">>)>>, <<Absent, Absent, Str(<<"n","/","a">>)>>,
      <<Num(833), Absent, Absent>>, <<Num(10000), Absent, Absent>>, <<Num(834), Absent, Absent>>,
      <<Num(416667), Absent, Num(142000)>>, <<Str(<<"1","2","k">>), Num(6), Num(50000)>>,
      <<Num(0), Num(6), Num(60000)>>, <<Absent, Num(24), Num(60000)>>,
      <<Absent, Num(0), Num(60000)>>, <<Absent, Infinity, Num(60000)>>,
      <<Absent, Str(<<"8">>), Num(100001)>> }

\* the transaction every other one varies: new contract, dated inside both
\* windows, one bedroom, 142,000 a year
GoodTxn == Txn(S_New, D_InWindow, Num(1), Absent, Absent, Num(142000))

\* the record of the end-to-end scenario, in the flat schema
FlatTxn ==
    Dict(<< <<<<"i","n","s","t","a","n","c","e","_","d","a","t","e">>, D_InWindow>>, <<<<"a","n","n","u","a","l","_","r","e","n","t">>, Str(<<"1","4","2",",","0","0","0"," ","A","E","D">>)>>,
            <<<<"b","e","d","r","o","o","m","s">>, Num(1)>>, <<<<"c","o","n","t","r","a","c","t","_","t","y","p","e","_","e","n">>, S_New>> >>)

\* a renewal by its top-level field, otherwise like GoodTxn
RenewalFlaggedTxn ==
    Dict(<< <<<<"c","o","n","t","r","a","c","t","_","t","y","p","e","_","e","n">>, S_Renewal>> >> \o GoodTxn.items)

\* transactions that differ from GoodTxn in one respect
VariedTxns ==
    {Txn(ct, D_InWindow, Num(1), Absent, Absent, Num(142000)) : ct \in ContractTypeValues}
    \cup {Txn(S_New, d, Num(1), Absent, Absent, Num(142000)) : d \in DateValues}
    \cup {Txn(S_New, D_InWindow, b, Absent, Absent, Num(142000)) : b \in BedsValues}
    \cup {Txn(S_New, D_InWindow, Num(1), r[1], r[2], r[3]) : r \in RentValues}
    \cup {FlatTxn, RenewalFlaggedTxn,
          Dict(<< <<KEY_contract, Num(5)>>, <<KEY_property, List(<< >>)>> >> \o
               Txn(Absent, D_InWindow, Absent, Absent, Absent, Num(142000)).items)}

\* the transactions the longer pages are made of
CoreTxns ==
    { GoodTxn,
      Txn(Absent, Num(1742083200), Str(<<"1"," ","b","e","d">>), Absent, Absent, Num(100001)),
      Txn(S_Renewal, D_InWindow, Num(1), Absent, Absent, Num(200000)),
      Txn(S_New, D_InWindow, NaN, Absent, Absent, Num(142000)) }

MaxShortPage == 2

RECURSIVE SeqsUpTo(_, _)
SeqsUpTo(S, n) ==
    IF n = 0 THEN {<< >>}
    ELSE LET shorter == SeqsUpTo(S, n - 1)
         IN  shorter \cup {Append(q, x) : q \in shorter, x \in S}

\* pages with fewer records than a full page
ShortPages == SeqsUpTo(CoreTxns, MaxShortPage) \cup {<<t>> : t \in VariedTxns}

\* a page of PageSize records: PageSize - 1 times the first, then the last
FullPage(first, last) == [i \in 1..PageSize |-> IF i < PageSize THEN first ELSE last]

\* the full pages of the model: new contracts that qualify, then a renewal;
\* contracts from before the window, then one without a date
FullPages ==
    { FullPage(GoodTxn, Txn(S_Renewal, D_InWindow, Num(1), Absent, Absent, Num(200000))),
      FullPage(Txn(S_New, Num(20240901), Num(1), Absent, Absent, Num(142000)),
               Txn(S_New, Absent, Num(1), Absent, Absent, Num(142000))) }

\* a transaction like GoodTxn with another amount
Rented(amount) == Txn(S_New, D_InWindow, Num(1), Absent, Absent, amount)

\* pages whose statistics are known by hand
ExamplePages ==
    { <<Rented(Num(100000)), Rented(Num(120000)), Rented(Num(110000))>>,
      <<Rented(Num(100000)), Rented(Num(200000))>>,
      <<Rented(Str(<<"1","0","0","0","0","0",".","5">>)), Rented(Num(100001)), Rented(Str(<<"1","0","0","0","0","1",".","2","5">>)),
        Rented(Num(5000000)), Rented(Num(10000)), Rented(Num(99999))>> }

\* decoded bodies of the transactions endpoint
TransactionPayloads ==
    {Dict(<< <<<<"d","a","t","a">>, List(p)>> >>) : p \in ShortPages \cup FullPages \cup ExamplePages}
    \cup { Null, Num(7), Str(<<"e","r","r","o","r">>), Dict(<< >>),
           List(<<GoodTxn, Num(5)>>),
           Dict(<< <<KEY_transactions, List(<<GoodTxn, Null>>)>> >>),
           Dict(<< <<<<"r","e","s","u","l","t">>, Dict(<< <<<<"r","o","w","s">>, List(<<GoodTxn>>)>> >>)>> >>),
           Dict(<< <<<<"d","a","t","a">>, List(<<Num(5), GoodTxn>>)>> >>),
           Dict(<< <<<<"p","a","g","e">>, List(<<GoodTxn, Num(5)>>)>> >>),
           Dict(<< <<<<"m","e","s","s","a","g","e">>, Str(<<"o","k">>)>>, <<<<"c","o","u","n","t">>, Num(0)>> >>) }

LocationRow(id, name) == MakeDict(<< <<KEY_id, id>>, <<KEY_name, name>> >>)

\* decoded bodies of the locations endpoint
LocationPayloads ==
    { Null, Dict(<< >>), List(<< >>),
      Dict(<< <<KEY_hits, List(<<LocationRow(Num(7), Str(AREA_DubaiMarina))>>)>> >>),
      Dict(<< <<<<"d","a","t","a">>, List(<<LocationRow(Num(9), Str(<<"M","a","r","i","n","a"," ","W","a","l","k">>)),
                               LocationRow(Str(<<"b","7">>), Str(<<"B","u","s","i","n","e","s","s"," ","B","a","y",","," ","D","u","b","a","i">>)),
                               LocationRow(Num(9), Absent)>>)>> >>),
      Dict(<< <<KEY_hits, List(<<LocationRow(Num(0), Str(AREA_DubaiMarina)),
                                 LocationRow(Absent, Str(AREA_BusinessBay))>>)>> >>),
      Dict(<< <<<<"p","a","g","e">>, List(<<LocationRow(Num(7), Absent), Num(5)>>)>> >>) }

\* what a request can end in: an exception of requests (timeout, no
\* connection), a status, a 200 whose body is no JSON, or a decoded body
Responses(payloads) ==
    { [kind |-> "exception"],
      [kind |-> "status", status |-> 401],
      [kind |-> "status", status |-> 500],
      [kind |-> "not_json", status |-> 200] }
    \cup {[kind |-> "json", status |-> 200, payload |-> pl] : pl \in payloads}

\* what the user may type into "Annual Rent (AED)"
TypedRents == {Rat(0, 1), Rat(95000, 1)}

(***************************************************************************)
(* State                                                                   *)
(***************************************************************************)
VARIABLES
    pc,          \* where the script is: "idle", or blocked in the request to
                 \* "locations" or to "transactions"
    call,        \* the activation of get_bayut_rent: arguments and locals
    session,     \* st.session_state
    screen,      \* what the last run of the script displayed
    rent_input,  \* what the user typed into "Annual Rent (AED)", NoneV if nothing
    escaped,     \* the exception that ended the last run, "none" if none did
    wire,        \* the requests of the query so far, each with how it ended
    unit         \* a direct call of one function and its result, NoUnit if none

vars == <<pc, call, session, screen, rent_input, escaped, wire, unit>>

NoCall == [f |-> "none"]

NoUnit == [fn |-> "none"]

Pending == [f |-> "pending"]

\* lines 449-476, 491-492: the locals of get_bayut_rent on entry.  rents
\* and used grow together: used[i] is the record rents[i] came from
NewCall(area_name, property_type, unit_type, api_key, now) ==
    LET target_bedrooms == parse_target_bedrooms(unit_type)
    IN  [f |-> "call",
         area_name |-> area_name,
         property_type |-> property_type,
         unit_type |-> unit_type,
         api_key |-> api_key,
         now |-> now,
         six_month_window_start |-> now - DaysDelta(WindowDays),
         target_bedrooms |-> target_bedrooms,
         category |-> map_bayut_category(property_type),
         location_ids |-> << >>,
         page |-> 0,
         rents |-> << >>,
         used |-> << >>,
         debug |-> NewDebug(target_bedrooms),
         returned |-> NoneV]

BlankScreen ==
    [f |-> "page", status |-> NoneV, box |-> "none", final_rent |-> NoneV,
     info_401 |-> FALSE, roi |-> NoneV]

\* direct calls of the pure functions, one per argument tuple
AmountInputs ==
    { Null, Num(150000), Num(1), Num(0), Num(0 - 5), Bool(TRUE), Bool(FALSE), NaN,
      Infinity, Str(<<"A","E","D"," ","1","5","0",",","0","0","0">>), Str(<<"1","5","0","k">>), Str(<<"1",".","5","M">>), Str(<< >>), Str(<<"0">>),
      Str(<<"0",".","0">>), Str(<<"-","5">>), Str(<<"-","1",".","5","k">>), Str(<<"a","b","c">>), Str(<<" "," "," ">>), Str(<<"A","E","D">>),
      Str(<<"1","4","2",",","0","0","0"," ","A","E","D">>), Str(<<"D","h","s"," ","9","9",".","5","0">>), Str(<<"0","k">>), Str(<<".","5">>), Str(<<"1","2"," ","t","o"," ","1","5">>) }

StatusInputs ==
    LET values == { S_New, S_Renewal, Null, Bool(TRUE), Bool(FALSE), Num(0), Num(1),
                    Num(2), Str(<<"O","t","h","e","r">>), Str(<<"r","e","n","e","w","e","d">>), Str(<<"F","i","r","s","t"," ","l","e","a","s","e">>),
                    Str(<<"n","o">>) }
    IN  {Dict(<< <<STATUS_KEYS[4], v>> >>) : v \in values}
        \cup {Dict(<< <<STATUS_KEYS[i], v>>, <<STATUS_KEYS[4], w>> >>) :
                i \in {1, 2, 3, 5}, v \in values, w \in {S_New, S_Renewal}}
        \cup {Dict(<< >>), FlatTxn, GoodTxn, RenewalFlaggedTxn}

UnitInputs ==
    LET values == { Str(<<"2"," ","B","R">>), Str(<<"S","t","u","d","i","o">>), Num(2), Num(1), Num(15), Null,
                    Str(<<"n","/","a">>), Str(<<"2"," ","o","r"," ","3">>), Bool(TRUE), NaN }
        records == {Dict(<< <<<<"b","e","d","r","o","o","m","s">>, v>> >>) : v \in values}
                   \cup {Dict(<< <<<<"u","n","i","t","_","t","y","p","e">>, v>>, <<<<"r","o","o","m","s">>, w>> >>) :
                           v \in values, w \in {Num(2), Null}}
                   \cup {Dict(<< >>), Dict(<< <<<<"a","n","n","u","a","l","_","r","e","n","t">>, Num(90000)>> >>),
                         FlatTxn, GoodTxn}
    IN  records \X {NoneV, IntV(0), IntV(1), IntV(2)}

RentInputs ==
    LET values == { Num(142000), Str(<<"1","4","2",",","0","0","0"," ","A","E","D">>), Num(9999), Num(10000),
                    Num(5000000), Num(5000001), Num(833), Num(834), Num(416666),
                    Num(416667), Num(0), Num(0 - 20000), Null, NaN, Infinity,
                    Str(<<"1",".","5","M">>), Str(<<"6","M">>), Str(<<"1","2","k">>), Str(<<"n","/","a">>) }
    IN  {Dict(<< <<k, v>> >>) : k \in {<<"a","n","n","u","a","l","_","r","e","n","t">>, <<"m","o","n","t","h","l","y","_","r","e","n","t">>, <<"a","m","o","u","n","t">>,
                                      <<"p","r","i","c","e","_","p","e","r","_","s","q","f","t">>}, v \in values}
        \cup {Dict(<< <<<<"a","n","n","u","a","l","_","r","e","n","t">>, v>>, <<<<"r","e","n","t","_","m","o","n","t","h","l","y">>, w>> >>) :
                v \in {Num(9999), Null, Num(60000)}, w \in {Num(1000), Num(500000)}}
        \cup {Dict(<< >>), FlatTxn, GoodTxn}

\* decoded payloads handed to extract_records: the bodies of both
\* endpoints, wrappers nested one and two levels, an empty list under a
\* wrapper key ahead of a filled one, and lists that mix dicts and scalars
RecordsInputs ==
    TransactionPayloads \cup LocationPayloads
    \cup { Bool(TRUE), NaN, List(<< >>), List(<<Num(5), Null>>),
           List(<<FlatTxn, Num(5), GoodTxn>>),
           Dict(<< <<<<"d","a","t","a">>, List(<< >>)>>,
                   <<<<"r","e","s","u","l","t","s">>, List(<<GoodTxn>>)>> >>),
           Dict(<< <<<<"r","o","w","s">>, List(<<FlatTxn>>)>>,
                   <<<<"d","a","t","a">>, List(<<GoodTxn>>)>> >>),
           Dict(<< <<<<"d","a","t","a">>, Dict(<< <<<<"x">>, List(<<GoodTxn>>)>> >>)>>,
                   <<<<"i","t","e","m","s">>, List(<<FlatTxn, Null>>)>> >>),
           Dict(<< <<<<"d","a","t","a">>,
                     Dict(<< <<<<"r","e","s","u","l","t">>,
                               Dict(<< <<<<"r","o","w","s">>, List(<<GoodTxn>>)>> >>)>> >>)>> >>),
           Dict(<< <<<<"d","a","t","a">>, Str(<<"x">>)>>,
                   <<<<"l","i","s","t">>, List(<<Num(5), GoodTxn>>)>>,
                   <<<<"h","i","t","s">>, List(<<GoodTxn, Num(5), FlatTxn>>)>> >>),
           Dict(<< <<<<"h","i","t","s">>, List(<<Num(5)>>)>> >>) }

UnitCalls ==
    {[fn |-> "parse_amount", args |-> <<v>>, ret |-> Pending] : v \in AmountInputs}
    \cup {[fn |-> "classify_contract_status", args |-> <<r>>, ret |-> Pending] :
            r \in StatusInputs}
    \cup {[fn |-> "record_matches_target_unit", args |-> <<a[1], a[2]>>, ret |-> Pending] :
            a \in UnitInputs}
    \cup {[fn |-> "extract_annual_rent", args |-> <<r>>, ret |-> Pending] :
            r \in RentInputs}
    \cup {[fn |-> "extract_records", args |-> <<pl>>, ret |-> Pending] :
            pl \in RecordsInputs}
    \cup {[fn |-> "get_bayut_rent", args |-> <<a, u[1], u[2]>>, ret |-> Pending] :
            a \in Areas, u \in UnitChoices}

Init ==
    /\ pc = "idle"
    /\ call = NoCall
    /\ session = [scraped_rent |-> 0, fetch_debug |-> NoneV, data_fetched |-> FALSE]
    /\ screen = BlankScreen
    /\ rent_input = NoneV
    /\ escaped = "none"
    /\ wire = << >>
    /\ unit \in {NoUnit} \cup UnitCalls

(***************************************************************************)
(* The script's steps                                                      *)
(***************************************************************************)
RequestFailed_KeepsSource(c, debug) ==
    [rent |-> fallback_index(c.area_name, c.unit_type),
     debug |-> [debug EXCEPT !.fallback_reason = REASON_RequestFailed,
                             !.fallback_note = NOTE_Generic]]

\* the handlers of lines 648-660
RequestFailed(c, debug) == FallbackReturn(c, debug, REASON_RequestFailed, NOTE_Generic)

ParseFailed(c, debug) == FallbackReturn(c, debug, REASON_ParseFailed, NOTE_Generic)

\* a body that is no JSON: response.json() raises requests' JSONDecodeError,
\* a RequestException from requests 2.27 on, a plain ValueError before
NotJson(c, debug) == {RequestFailed(c, debug), ParseFailed(c, debug)}

\* how a stretch of get_bayut_rent ends: it returns r = [rent, debug], an
\* exception leaves it, or it blocks in the next request
Returned(c, r) ==
    [kind |-> "return", rent |-> r.rent,
     call |-> [c EXCEPT !.debug = r.debug, !.returned = IntV(r.rent)]]

Raised(c, exc) == [kind |-> "raise", exc |-> exc, call |-> c]

Requesting(c, endpoint) == [kind |-> "request", endpoint |-> endpoint, call |-> c]

\* lines 449-501: from the call to the locations request
Enter(area_name, property_type, unit_type, api_key, now) ==
    LET c == NewCall(area_name, property_type, unit_type, api_key, now)
    IN  IF c.api_key = ""
        THEN Returned(c, FallbackReturn(c, c.debug, REASON_MissingKey, NOTE_MissingKey))
        ELSE Requesting(c, "locations")

\* lines 502-537: from the end of the locations request to the first
\* transactions request; a set, for the outcomes that depend on the build
AfterLocations(c, response) ==
    LET seen == [c.debug EXCEPT !.api_status_code = response.status,
                                !.locations_status_code = response.status]
    IN  CASE response.kind = "exception" -> {Returned(c, RequestFailed(c, c.debug))}
          [] response.kind = "status" /\ response.status = 401 ->
               {Returned(c, FallbackReturn(c, seen, REASON_Locations401, NOTE_Locations401))}
          [] response.kind = "status" /\ response.status # 401 ->
               {Returned(c, RequestFailed(c, seen))}
          [] response.kind = "not_json" ->
               {Returned(c, r) : r \in NotJson(c, seen)}
          [] response.kind = "json" ->
               LET Selected(found, debug) ==
                       IF found.selected = << >>
                       THEN {Returned(c, FallbackReturn(c, debug, REASON_NoLocationId,
                                                        NOTE_NoLocationId))}
                       ELSE {Requesting([c EXCEPT !.debug = debug,
                                                  !.location_ids = found.selected],
                                        "transactions")}
                   Searched(found) ==
                       IF IsRaise(found) THEN {Raised([c EXCEPT !.debug = seen], found.exc)}
                       ELSE Selected(found,
                                [seen EXCEPT !.location_rows_received = Len(found.rows),
                                             !.location_ids_used = found.selected])
               IN  Searched(extract_location_ids(response.payload, c.area_name))

Finish_ZeroAsLive(c) ==
    IF c.rents # << >>
    THEN LET stats == Aggregate(c.rents)
         IN  [rent |-> stats.avg_rent_aed, debug |-> [c.debug EXCEPT !.stats = stats]]
    ELSE [rent |-> 0, debug |-> c.debug]

\* lines 630-646: after the last page
Finish(c) ==
    IF c.rents # << >>
    THEN LET stats == Aggregate(c.rents)
         IN  [rent |-> stats.avg_rent_aed, debug |-> [c.debug EXCEPT !.stats = stats]]
    ELSE FallbackReturn(c, c.debug, REASON_NoMatch, NOTE_Generic)

LastPage_NoEarlyExit(records, c) == c.page = MaxPages - 1

\* lines 538, 627-628: whether the loop over the pages ends with page
\* c.page, whose records are given
LastPage(records, c) == Len(records) < PageSize \/ c.page = MaxPages - 1

\* lines 552-660: from the end of the request for page c.page to the next
\* request or to the return
AfterTransactions(c, response) ==
    LET seen == [c.debug EXCEPT !.api_status_code = response.status]
        fetched == [seen EXCEPT !.pages_fetched = @ + 1]
    IN  CASE response.kind = "exception" -> {Returned(c, RequestFailed(c, c.debug))}
          [] response.kind = "status" /\ response.status = 401 ->
               {Returned(c, FallbackReturn(c, seen, REASON_Transactions401,
                                           NOTE_Transactions401))}
          [] response.kind = "status" /\ response.status # 401 ->
               {Returned(c, RequestFailed(c, seen))}
          [] response.kind = "not_json" ->
               {Returned(c, r) : r \in NotJson(c, fetched)}
          [] response.kind = "json" ->
               LET \* st: the state the loop over the records ends in;
                   \* after: the call with that state stored
                   Looped(records, st, after) ==
                       IF st.exc = "ValueError"
                       THEN {Returned(after, ParseFailed(after, st.debug))}
                       ELSE IF st.exc # "none" THEN {Raised(after, st.exc)}
                       ELSE IF LastPage(records, c)
                       THEN {Returned(after, Finish(after))}
                       ELSE {Requesting([after EXCEPT !.page = @ + 1], "transactions")}
                   Stored(records, st) ==
                       Looped(records, st,
                              [c EXCEPT !.debug = st.debug, !.rents = st.rents,
                                        !.used = st.used])
                   Paged(records) ==
                       Stored(records,
                              ProcessRecords(
                                  [debug |-> [fetched EXCEPT !.records_received =
                                                               @ + Len(records)],
                                   rents |-> c.rents, used |-> c.used, exc |-> "none"],
                                  records, 1, c))
               IN  Paged(PageRecords(response.payload))

Exchange(endpoint, page, response) ==
    [endpoint |-> endpoint, page |-> page,
     outcome |-> IF response.kind = "exception" THEN "exception" ELSE "status",
     status |-> IF response.kind = "exception" THEN 0 ELSE response.status,
     decoded |-> response.kind = "json",
     body |-> IF response.kind = "json" THEN response.payload ELSE NoneV]

\* the run of the script goes on with outcome o of get_bayut_rent: lines
\* 665-693 store a returned pair and the rest of the run displays it, an
\* exception ends the run, a request blocks it
Continue(o) ==
    /\ call' = o.call
    /\ CASE o.kind = "return" ->
              LET sess == [scraped_rent |-> o.rent, fetch_debug |-> o.call.debug,
                           data_fetched |-> TRUE]
              IN  /\ pc' = "idle"
                  /\ session' = sess
                  /\ rent_input' = NoneV
                  /\ screen' = Render(sess, NoneV, StatusLabel(o.rent, o.call.debug))
                  /\ escaped' = "none"
         [] o.kind = "raise" ->
              /\ pc' = "idle"
              /\ escaped' = o.exc
              /\ screen' = [f |-> "traceback", exc |-> o.exc]
              /\ UNCHANGED <<session, rent_input>>
         [] o.kind = "request" ->
              /\ pc' = o.endpoint
              /\ screen' = [BlankScreen EXCEPT !.status = "Connecting to Bayut API..."]
              /\ escaped' = "none"
              /\ UNCHANGED <<session, rent_input>>
    /\ UNCHANGED unit

\* the user clicks "Calculate ROI": the script runs get_bayut_rent up to
\* the locations request
Calculate(location, property_type, unit_conf, now) ==
    /\ unit = NoUnit
    /\ pc = "idle"
    /\ ~session.data_fetched
    /\ wire' = << >>
    /\ Continue(Enter(location, property_type, unit_conf, BAYUT_API_KEY, now))

\* the locations request ends
LocationsResponse(response) ==
    /\ pc = "locations"
    /\ wire' = Append(wire, Exchange("locations", 0, response))
    /\ \E o \in AfterLocations(call, response) : Continue(o)

\* the request for page call.page of the transactions ends
TransactionsResponse(response) ==
    /\ pc = "transactions"
    /\ wire' = Append(wire, Exchange("transactions", call.page, response))
    /\ \E o \in AfterTransactions(call, response) : Continue(o)

\* the user changes "Annual Rent (AED)": the script reruns without a query
EditRent(value) ==
    /\ unit = NoUnit
    /\ pc = "idle"
    /\ session.data_fetched
    /\ rent_input' = value
    /\ screen' = Render(session, value, NoneV)
    /\ UNCHANGED <<pc, call, session, escaped, wire, unit>>

(***************************************************************************)
(* Direct calls of the pure functions                                      *)
(***************************************************************************)
Returns(fn, result) ==
    /\ unit.fn = fn
    /\ unit.ret = Pending
    /\ unit' = [unit EXCEPT !.ret = result]
    /\ UNCHANGED <<pc, call, session, screen, rent_input, escaped, wire>>

CallParseAmount ==
    /\ unit.fn = "parse_amount"
    /\ Returns("parse_amount", parse_amount(unit.args[1]))

CallClassifyContractStatus ==
    /\ unit.fn = "classify_contract_status"
    /\ Returns("classify_contract_status", classify_contract_status(unit.args[1]))

CallRecordMatchesTargetUnit ==
    /\ unit.fn = "record_matches_target_unit"
    /\ Returns("record_matches_target_unit",
               record_matches_target_unit(unit.args[1], unit.args[2]))

CallExtractAnnualRent ==
    /\ unit.fn = "extract_annual_rent"
    /\ Returns("extract_annual_rent", extract_annual_rent(unit.args[1]))

\* the returned list, as [f |-> "list", items |-> ...]
CallExtractRecords ==
    /\ unit.fn = "extract_records"
    /\ Returns("extract_records",
               [f |-> "list", items |-> extract_records(unit.args[1])])

\* get_bayut_rent(area_name, property_type, unit_type): api_key is ""
CallGetBayutRent(now) ==
    /\ unit.fn = "get_bayut_rent"
    /\ Returns("get_bayut_rent",
               Enter(unit.args[1], unit.args[2], unit.args[3], "", now))

Next ==
    \/ \E location \in Areas, choice \in UnitChoices, now \in QueryTimes :
          Calculate(location, choice[1], choice[2], now)
    \/ \E response \in Responses(LocationPayloads) : LocationsResponse(response)
    \/ \E response \in Responses(TransactionPayloads) : TransactionsResponse(response)
    \/ \E value \in TypedRents : EditRent(value)
    \/ CallParseAmount
    \/ CallClassifyContractStatus
    \/ CallRecordMatchesTargetUnit
    \/ CallExtractAnnualRent
    \/ CallExtractRecords
    \/ \E now \in QueryTimes : CallGetBayutRent(now)

Spec == Init /\ [][Next]_vars

(***************************************************************************)
(* Properties                                                              *)
(***************************************************************************)
\* get_bayut_rent has returned to the script
HasReturned == call # NoCall /\ call.returned # NoneV

\* every request of the query so far was answered 200 with a JSON body
AllSucceeded ==
    \A i \in 1..Len(wire) :
        wire[i].outcome = "status" /\ wire[i].status = 200 /\ wire[i].decoded

MeanOf(rents) == LET total == Sum(rents) IN Rat(total.n, total.d * Len(rents))

\* k is an integer nearest to the finite float x
Nearest(k, x) == Abs(2 * (k * x.d - x.n)) <= x.d

Ordered(q) == \A i \in 1..(Len(q) - 1) : FLe(q[i], q[i + 1])

Range(q) == {q[i] : i \in 1..Len(q)}

SameElements(q, r) ==
    /\ Len(q) = Len(r)
    /\ \A x \in Range(q) \cup Range(r) :
          Cardinality({j \in 1..Len(q) : q[j] = x})
              = Cardinality({j \in 1..Len(r) : r[j] = x})

\* the midpoint of an ordered sequence: the middle element, or the average
\* of the two middle elements
Midpoint(q) ==
    LET n == Len(q)
    IN  IF n % 2 = 1 THEN q[(n + 1) \div 2]
        ELSE LET two == FAdd(q[n \div 2], q[n \div 2 + 1])
             IN  Rat(two.n, two.d * 2)

DateOf(txn) == parse_datetime(Get(txn, KEY_date))

BedsOf(txn) == Get(SubDict(txn, KEY_property), KEY_beds)

Pair(matches, has_unit_info) ==
    [f |-> "pair", matches |-> matches, has_unit_info |-> has_unit_info]

\* the payload of the end-to-end scenario
ScenarioPayload == Dict(<< <<<<"d","a","t","a">>, List(<<FlatTxn>>)>> >>)

ScenarioAnswered ==
    /\ call # NoCall
    /\ pc = "idle"
    /\ call.target_bedrooms = IntV(1)
    /\ Len(wire) = 2
    /\ wire[1].decoded
    /\ wire[2].body = ScenarioPayload

\* C1: when the transactions endpoint answers a query for one bedroom with
\* the scenario's payload, get_bayut_rent returns 142000 with
\* records_used = 1 and source "bayut_api".
C1_EndToEndScenario ==
    ScenarioAnswered =>
        /\ HasReturned
        /\ call.returned = IntV(142000)
        /\ call.debug.records_used = 1
        /\ call.debug.source = "bayut_api"

\* C2: a query that ends without a qualifying record returns through the
\* fallback path, never as "bayut_api"; the investment summary is only ever
\* computed from a rent above 0; and a stored rent of 0 shows the prompt to
\* enter the rent manually, with no summary until the user types a rent.
C2_NoDataNeverZeroRent ==
    /\ (HasReturned /\ call.rents = << >>) => call.debug.source = "fallback_index"
    /\ (screen.f = "page" /\ screen.roi # NoneV) =>
           /\ FLt(Rat(0, 1), screen.roi.final_rent)
           /\ screen.roi.final_rent = screen.final_rent
    /\ (session.data_fetched /\ session.scraped_rent = 0) =>
           /\ screen.box = "warning_enter_manually"
           /\ rent_input = NoneV => screen.roi = NoneV

C2_Witness ==
    /\ HasReturned
    /\ AllSucceeded
    /\ call.debug.records_received > 0
    /\ call.rents = << >>
    /\ call.debug.fallback_reason = REASON_NoMatch
    /\ session.scraped_rent = 0
    /\ screen.box = "warning_enter_manually"
    /\ screen.roi = NoneV

C4_NoExceptionEscapes ==
    /\ escaped = "none"
    /\ (HasReturned /\ call.debug.fallback_reason = REASON_ParseFailed) =>
           \E i \in 1..Len(wire) : wire[i].outcome = "status" /\ ~wire[i].decoded

\* C5 (as the code has it): every record whose rent was appended has a
\* resolvable date d with window_start <= d <= query time + 1 day.
C5_UsedWithinWindowPlusDay ==
    call # NoCall =>
        \A txn \in Range(call.used) :
            LET d == DateOf(txn)
            IN  /\ d.f = "dt"
                /\ call.six_month_window_start <= d.at
                /\ d.at <= call.now + DaysDelta(1)

\* C5 (as stated): every record whose rent was appended has a resolvable
\* date d with window_start <= d <= query time.
C5_UsedWithinWindow ==
    call # NoCall =>
        \A txn \in Range(call.used) :
            LET d == DateOf(txn)
            IN  /\ d.f = "dt"
                /\ call.six_month_window_start <= d.at
                /\ d.at <= call.now

\* a live result from a record dated a full day after the query time
C5_Witness ==
    /\ HasReturned
    /\ call.debug.source = "bayut_api"
    /\ \E txn \in Range(call.used) : DateOf(txn).at = call.now + DaysDelta(1)

CarriesRenewal(record) ==
    HasKey(record, STATUS_KEYS[4]) /\ Get(record, STATUS_KEYS[4]) = S_Renewal

\* C6: a record with contract_type_en = "Renewal" is never classified "new"
\* and its rent is never appended, whatever its other fields hold.
C6_RenewalNeverNew ==
    /\ ( /\ unit.fn = "classify_contract_status"
         /\ unit.ret # Pending
         /\ CarriesRenewal(unit.args[1]) ) => unit.ret # Label("new")
    /\ call # NoCall => \A txn \in Range(call.used) : ~CarriesRenewal(txn)

\* C7: every appended rent lies in [10,000, 5,000,000], so does the rent of
\* a "bayut_api" return, and extract_annual_rent returns None or a value in
\* that band.
C7_AcceptedInBand ==
    /\ call # NoCall =>
         \A r \in Range(call.rents) :
             r.f = "rat" /\ MinAnnualRent * r.d <= r.n /\ r.n <= MaxAnnualRent * r.d
    /\ (HasReturned /\ call.debug.source = "bayut_api") =>
         MinAnnualRent <= call.returned.n /\ call.returned.n <= MaxAnnualRent
    /\ (unit.fn = "extract_annual_rent" /\ unit.ret # Pending) =>
         \/ unit.ret = NoneV
         \/ /\ unit.ret.f = "rat"
            /\ MinAnnualRent * unit.ret.d <= unit.ret.n
            /\ unit.ret.n <= MaxAnnualRent * unit.ret.d

\* a live result from a monthly amount, taken times 12
C7_Witness ==
    /\ HasReturned
    /\ call.debug.source = "bayut_api"
    /\ \E i \in 1..Len(call.used) :
          /\ Get(SubDict(call.used[i], KEY_contract), KEY_monthly_amount) = Num(10000)
          /\ call.rents[i] = Rat(120000, 1)

\* C8 (as the code has it): of a live result the rent is an integer nearest
\* to the mean of the appended rents, min and max are the smallest and the
\* largest of them cut to whole numbers, and the median is the midpoint of
\* the sorted rents rounded to an integer; [100000, 120000, 110000] gives
\* mean and median 110000, [100000, 200000] gives median 150000.
C8_Statistics ==
    (HasReturned /\ call.debug.source = "bayut_api") =>
        LET stats == call.debug.stats
            q == Sorted(call.rents)
        IN  /\ Ordered(q) /\ SameElements(q, call.rents)
            /\ call.returned.n = stats.avg_rent_aed
            /\ Nearest(stats.avg_rent_aed, MeanOf(call.rents))
            /\ stats.min_rent_aed = FTrunc(q[1])
            /\ stats.max_rent_aed = FTrunc(q[Len(q)])
            /\ Nearest(stats.median_rent_aed, Midpoint(q))
            /\ call.rents = <<Rat(100000, 1), Rat(120000, 1), Rat(110000, 1)>> =>
                   stats.avg_rent_aed = 110000 /\ stats.median_rent_aed = 110000
            /\ call.rents = <<Rat(100000, 1), Rat(200000, 1)>> =>
                   stats.median_rent_aed = 150000

\* C8 (as stated): min, max and median are the smallest value, the largest
\* value and the midpoint themselves.
C8_ExactStatistics ==
    (HasReturned /\ call.debug.source = "bayut_api") =>
        LET stats == call.debug.stats
            q == Sorted(call.rents)
        IN  /\ Nearest(stats.avg_rent_aed, MeanOf(call.rents))
            /\ Rat(stats.min_rent_aed, 1) = q[1]
            /\ Rat(stats.max_rent_aed, 1) = q[Len(q)]
            /\ Rat(stats.median_rent_aed, 1) = Midpoint(q)

\* a live result from rents that are no whole numbers
C8_Witness ==
    /\ HasReturned
    /\ call.debug.source = "bayut_api"
    /\ Len(call.rents) = 6
    /\ \E i \in 1..Len(call.rents) : call.rents[i].d # 1
    /\ MeanOf(call.rents).d # 1

\* C9: with target 2 a record with bedrooms = "2 BR" matches; with a target,
\* a record without a unit field yields (False, False); a match without unit
\* information only happens without a target; and with a target every
\* record whose rent was appended states the target as its bedroom count.
C9_UnitMatch ==
    /\ (unit.fn = "record_matches_target_unit" /\ unit.ret # Pending) =>
         LET record == unit.args[1]
             target == unit.args[2]
             no_unit_field == \A i \in 1..Len(record.items) :
                                  ~is_unit_key(record.items[i][1])
         IN  /\ (record = Dict(<< <<<<"b","e","d","r","o","o","m","s">>, Str(<<"2"," ","B","R">>)>> >>) /\ target = IntV(2)) =>
                    unit.ret = Pair(TRUE, TRUE)
             /\ (no_unit_field /\ target # NoneV) => unit.ret = Pair(FALSE, FALSE)
             /\ (unit.ret.f = "pair" /\ unit.ret.matches /\ ~unit.ret.has_unit_info) =>
                    target = NoneV
    /\ (call # NoCall /\ call.target_bedrooms # NoneV) =>
         \A txn \in Range(call.used) :
             /\ BedsOf(txn) # Null
             /\ parse_bed_value(BedsOf(txn)) = call.target_bedrooms

\* with a target, a record without a unit field was reported (False, False)
C9_Witness ==
    /\ unit.fn = "record_matches_target_unit"
    /\ unit.args = <<Dict(<< <<<<"a","n","n","u","a","l","_","r","e","n","t">>, Num(90000)>> >>), IntV(2)>>
    /\ unit.ret = Pair(FALSE, FALSE)

\* C10: parse_amount returns None or an amount above 0, for every value.
C10_NoneOrPositive ==
    (unit.fn = "parse_amount" /\ unit.ret # Pending) =>
        unit.ret = NoneV \/ FLt(Rat(0, 1), unit.ret)

\* C11: extract_records never raises and returns only mappings, in source
\* order: the dicts of the payload when it is a list, the empty sequence
\* when the payload is neither a list nor a mapping
C11_RecordsAreMappings ==
    (unit.fn = "extract_records" /\ unit.ret # Pending) =>
        /\ unit.ret.f = "list"
        /\ \A i \in 1..Len(unit.ret.items) : IsDict(unit.ret.items[i])
        /\ IsList(unit.args[1]) => unit.ret.items = OnlyDicts(unit.args[1].items)
        /\ (~IsList(unit.args[1]) /\ ~IsDict(unit.args[1])) => unit.ret.items = << >>

\* an exchange that ended in a status below 400 and a body that decoded
Succeeded(exchange) ==
    /\ exchange.outcome = "status"
    /\ exchange.status < 400
    /\ exchange.decoded

\* C12: the requests of one query are one locations request, then the
\* transactions pages 0, 1, 2 in that order, at most MaxPages of them; a
\* request follows another only when every earlier one succeeded and every
\* earlier page held at least PageSize records, so nothing is requested
\* after a failure or a short page; pages_fetched never exceeds MaxPages
C12_SequentialRequests ==
    LET issued == Len(wire) + (IF pc \in {"locations", "transactions"} THEN 1 ELSE 0)
    IN  /\ issued <= MaxPages + 1
        /\ pc = "locations" => wire = << >>
        /\ pc = "transactions" => wire # << >> /\ call.page = Len(wire) - 1
        /\ \A i \in 1..Len(wire) :
              /\ wire[i].endpoint = (IF i = 1 THEN "locations" ELSE "transactions")
              /\ i >= 2 => wire[i].page = i - 2
              /\ i < issued =>
                    /\ Succeeded(wire[i])
                    /\ i >= 2 => Len(PageRecords(wire[i].body)) >= PageSize
        /\ call # NoCall => call.debug.pages_fetched <= MaxPages

\* three pages were requested, the first two full, and all were fetched
C12_Witness ==
    /\ pc = "idle"
    /\ Len(wire) = MaxPages + 1
    /\ wire[MaxPages + 1].page = MaxPages - 1
    /\ Len(PageRecords(wire[2].body)) = PageSize
    /\ call.debug.pages_fetched = MaxPages

\* the values of the status fields that are present and not null, in the
\* priority order of STATUS_KEYS
StatusFields(record) ==
    SelectSeq([i \in 1..Len(STATUS_KEYS) |->
                 IF HasKey(record, STATUS_KEYS[i]) THEN Get(record, STATUS_KEYS[i])
                 ELSE Null],
              LAMBDA v : v.t # "null")

\* the label the stated rules give one value: true and 1 renewal, false and
\* 0 new, text with "renew" renewal, text with "new", "initial" or "first"
\* new, anything else unknown
StatedStatus(value) ==
    LET OfText(text) ==
            IF Contains(text, <<"r","e","n","e","w">>) THEN "renewal"
            ELSE IF ContainsAny(text, << <<"n","e","w">>, <<"i","n","i","t","i","a","l">>,
                                         <<"f","i","r","s","t">> >>)
            THEN "new"
            ELSE "unknown"
    IN  CASE value.t = "bool" -> IF value.b THEN "renewal" ELSE "new"
          [] value.t = "num" /\ value.n = 1 -> "renewal"
          [] value.t = "num" /\ value.n = 0 -> "new"
          [] OTHER -> OfText(Lower(Strip(ToStr(value))))

\* C13: classify_contract_status decides from the first status field that
\* is present and not null, by the stated rules, and gives "unknown" for any
\* other value of that field without consulting later fields; a record
\* without a status field gives "unknown"
C13_FirstFieldDecides ==
    (unit.fn = "classify_contract_status" /\ unit.ret # Pending) =>
        unit.ret = Label(IF StatusFields(unit.args[1]) = << >> THEN "unknown"
                         ELSE StatedStatus(Head(StatusFields(unit.args[1]))))

\* C14: on every return of get_bayut_rent each received record is counted
\* once per stage: the records not new, without a date, outside the window
\* and inside it add up to the records received; the unit matches and the
\* records without unit information are at most the records inside the
\* window; the records used and those without a rent amount add up to the
\* unit matches; and records_used is the number of rents collected
C14_CounterConservation ==
    (call # NoCall /\ call.returned.f # "none") =>
        /\ call.debug.records_not_new + call.debug.records_missing_date
             + call.debug.records_outside_6m + call.debug.records_in_last_6_months
           = call.debug.records_received
        /\ call.debug.records_unit_match + call.debug.records_missing_unit_info
           <= call.debug.records_in_last_6_months
        /\ call.debug.records_used + call.debug.records_missing_rent_amount
           = call.debug.records_unit_match
        /\ call.debug.records_used = Len(call.rents)

====
